---- MODULE Spec2Model ----
(***************************************************************************)
(* Model of the local path index and fuzzy search engine                   *)
(* (src/path_index_local.py): the SQLite store with its primary table      *)
(* `paths` and the optional FTS5 mirror `paths_fts`, the index builder     *)
(* rebuild_index, and the ranked query advanced_query_paths; and of the    *)
(* /qcount and /qbuild commands of src/Computer_Main_Centre.py.            *)
(*                                                                         *)
(* Spec runs rebuilds on filesystems with walk errors and storage faults,  *)
(* with queries between them. SpecApi runs rebuilds on a readable          *)
(* filesystem next to the queries and /qcount commands of other callers.   *)
(* SpecCmd runs /qbuild commands and rebuilds of other callers. SpecScore  *)
(* runs single queries on prepared indexes.                                *)
(*                                                                         *)
(* Strings are sequences of one-character strings, so that rstrip, strip,  *)
(* lower(), split(), substring containment and difflib's ratio are         *)
(* computed character by character as the code computes them.              *)
(***************************************************************************)
EXTENDS Integers, Sequences, FiniteSets, TLC

VARIABLES
    fs,         \* the filesystem snapshot: root string -> listing
    ftsAvail,   \* whether this SQLite build has the fts5 module
    db,         \* the committed contents of the database file
    tx,         \* the contents as seen by the rebuild's connection (uncommitted)
    pc,         \* position of rebuild_index: idle, loop, walk, done, raised
    targets,    \* rebuild_index's argument
    ti,         \* index of the current target in the for loop of line 74
    wi,         \* number of entries root.rglob has yielded for the current root
    batch,      \* the local list `batch`
    total,      \* the nonlocal counter `total`
    has_fts,    \* the local `has_fts` returned by ensure_schema
    recreate,   \* how the DROP/CREATE of lines 49-50 ended in this rebuild
    before,     \* history: primary table rows when this rebuild started
    walked,     \* history: paths that rglob yielded during this rebuild
    scanned,    \* history: indexes of the targets whose walk was started
    prev,       \* history: targets and result of the rebuild that ended just before
    lastQuery,  \* history: the last query call since the last rebuild began
    faults,     \* number of rebuilds whose DROP/CREATE of the mirror failed
    lastCount,  \* history: the last /qcount command since the last rebuild began
    cmd         \* history: the /qbuild command that started this rebuild, if any

vars == <<fs, ftsAvail, db, tx, pc, targets, ti, wi, batch, total, has_fts,
          recreate, before, walked, scanned, prev, lastQuery, faults, lastCount,
          cmd>>

-----------------------------------------------------------------------------
(* Bounds of the model *)

\* Stand-in for the batch threshold 5000 of line 90, scaled to the listings.
BatchSize == 2

\* The number of rebuilds in one run whose mirror recreation fails.
MaxFaults == 1

\* Stand-ins for the floor 2000 and the factor 80 of the candidate cap of
\* line 163, scaled to the indexes of the model.
CapFloor == 4
CapFactor == 1

-----------------------------------------------------------------------------
(* Generic helpers on sequences *)

Range(s) == {s[i] : i \in 1..Len(s)}

Max(a, b) == IF a >= b THEN a ELSE b

Min(a, b) == IF a <= b THEN a ELSE b

\* Python's s[i:j] for 0 <= i, j (0-based, half-open), clamped to the length.
Slice(s, i, j) ==
    LET hi == Min(j, Len(s))
    IN  IF i >= hi THEN <<>> ELSE [k \in 1..(hi - i) |-> s[i + k]]

\* a occurs in s as a contiguous block (Python's `a in s` on strings).
Contains(s, a) ==
    \E i \in 0..(Len(s) - Len(a)) : \A k \in 1..Len(a) : s[i + k] = a[k]

-----------------------------------------------------------------------------
(* Characters and str methods *)

\* Characters that str.strip() with no argument removes.
IsSpace(c) == c \in {" ", "\n", "\t"}

\* str.lower() on one character, over the alphabet of the model.
LowerChar(c) ==
    CASE c = "A" -> "a"
      [] c = "B" -> "b"
      [] c = "C" -> "c"
      [] c = "E" -> "e"
      [] c = "L" -> "l"
      [] c = "Z" -> "z"
      [] OTHER   -> c

Lower(s) == [i \in 1..Len(s) |-> LowerChar(s[i])]

\* str.rstrip(chars): drop the longest suffix made of characters in chars.
RECURSIVE RStrip(_, _)
RStrip(s, chars) ==
    IF s # <<>> /\ s[Len(s)] \in chars THEN RStrip(SubSeq(s, 1, Len(s) - 1), chars)
    ELSE s

RECURSIVE LStripSpace(_)
LStripSpace(s) ==
    IF s # <<>> /\ IsSpace(s[1]) THEN LStripSpace(Tail(s)) ELSE s

\* str.strip(): drop leading and trailing whitespace.
Strip(s) == LStripSpace(RStrip(s, {" ", "\n", "\t"}))

-----------------------------------------------------------------------------
(* The filesystem seen by the walk *)

\* tgt.rstrip(":/\\").strip()
Drive(tgt) == Strip(RStrip(tgt, {":", "/", "\\"}))

\* Variant: a target that is not a drive letter names the directory itself.
RootOrDirectory(tgt) ==
    IF Len(Drive(tgt)) = 1 THEN Drive(tgt) \o <<":", "/">> ELSE tgt

\* Path(f"{drive}:/") as a string.
Root(tgt) == Drive(tgt) \o <<":", "/">>

pA  == <<"C", ":", "/", "a", "b">>
pB  == <<"C", ":", "/", "A", "b", "/", "b">>
pC  == <<"C", ":", "/", "b">>
pD  == <<"E", ":", "/", "a">>

rootC == <<"C", ":", "/">>
rootE == <<"E", ":", "/">>

\* The directory C:/Ab, which holds pB.
dirAb == <<"C", ":", "/", "A", "b">>

\* A listing: the readable entries beneath a root in the order root.rglob("*")
\* reaches them, and errAt, the numbers of entries after which rglob meets an
\* entry it raises on (empty: it never raises).
Listing(entries, errAt) == [entries |-> entries, errAt |-> errAt]

\* A snapshot: the directories that exist, each with what rglob yields
\* beneath it; a path outside the domain does not exist. e holds the error
\* positions of the walk of C:/.
Snapshot(e) ==
    (rootC :> Listing(<<pA, pB, pC>>, e))
        @@ (rootE :> Listing(<<pD>>, {}))
        @@ (dirAb :> Listing(<<pB>>, {}))

\* The snapshots the model starts from. The error positions make rglob fail
\* before the first entry (an unreadable root), inside a batch, right after a
\* full batch, and at the end.
Snapshots == { Snapshot(e) : e \in {{}, {0}, {1}, {2}, {3}} }

\* root.exists()
Exists(f, root) == root \in DOMAIN f

-----------------------------------------------------------------------------
(* The SQLite store *)

\* A database file: whether it exists, and its two tables. `paths` holds the
\* rows of the primary table in rowid order; `fts` the rows of paths_fts.
\* `locked` is set on the store a call meets while another process holds the
\* file's lock (or the disk fails): every statement on it raises.
NoDb == [file |-> FALSE, hasPaths |-> FALSE, paths |-> <<>>,
         hasFts |-> FALSE, fts |-> <<>>, locked |-> FALSE]

\* The store as a call meets it while another process holds its lock.
Locked(d) == [d EXCEPT !.locked = TRUE]

\* sqlite3.connect creates the file when it is missing.
connect(d) == [d EXCEPT !.file = TRUE]

\* Variant: the primary table is not created.
EnsureSchemaMirrorOnly(d, avail) == [d EXCEPT !.hasFts = d.hasFts \/ avail]

\* CREATE TABLE IF NOT EXISTS paths; CREATE VIRTUAL TABLE IF NOT EXISTS
\* paths_fts, which fails without the fts5 module; commit.
ensure_schema(d, avail) ==
    [d EXCEPT !.hasPaths = TRUE,
              !.hasFts   = d.hasFts \/ avail]

\* The value ensure_schema returns.
ensure_schema_has_fts(avail) == avail

\* Variant: a DELETE that removes the first row only.
DeletePathsFirstOnly(d) ==
    [d EXCEPT !.paths = IF d.paths = <<>> THEN <<>> ELSE Tail(d.paths)]

\* Variant: the DELETE statement is missing.
DeletePathsNone(d) == d

\* DELETE FROM paths;
DeletePaths(d) == [d EXCEPT !.paths = <<>>]

\* Lines 47-52: DROP TABLE IF EXISTS paths_fts; CREATE VIRTUAL TABLE paths_fts.
\* Either statement can fail; the exception is caught and only printed.
\*   ok:         both ran, the mirror is empty
\*   dropfail:   the DROP failed, the old mirror is still there
\*   createfail: the DROP ran and the CREATE failed, there is no mirror
RecreateOutcomes == {"ok", "dropfail", "createfail"}

RecreateFts(d, outcome) ==
    CASE outcome = "ok"         -> [d EXCEPT !.hasFts = TRUE, !.fts = <<>>]
      [] outcome = "createfail" -> [d EXCEPT !.hasFts = FALSE, !.fts = <<>>]
      [] OTHER                  -> d

\* Variant: a plain INSERT into a table without the key.
InsertPlain(rows, p) == Append(rows, p)

\* INSERT OR IGNORE INTO paths(path) VALUES (p): path is the PRIMARY KEY.
InsertOrIgnore(rows, p) == IF p \in Range(rows) THEN rows ELSE Append(rows, p)

RECURSIVE InsertOrIgnoreMany(_, _)
InsertOrIgnoreMany(rows, b) ==
    IF b = <<>> THEN rows
    ELSE InsertOrIgnoreMany(InsertOrIgnore(rows, Head(b)), Tail(b))

\* INSERT INTO paths_fts(path) VALUES (p) for every p of the batch: the
\* contentless FTS5 table has no key, every row is stored.
InsertFtsMany(rows, b) == rows \o b

\* add_batch on a non-empty batch: the new store, whether it raised (the
\* mirror insert on a missing table), and the increment of `total`.
add_batch(t, b, hasfts) ==
    LET t1     == [t EXCEPT !.paths = InsertOrIgnoreMany(t.paths, b)]
        raises == hasfts /\ ~t1.hasFts
    IN  [tx     |-> IF hasfts /\ t1.hasFts
                    THEN [t1 EXCEPT !.fts = InsertFtsMany(t1.fts, b)]
                    ELSE t1,
         raised |-> raises,
         added  |-> IF raises THEN 0 ELSE Len(b)]

-----------------------------------------------------------------------------
(* rebuild_index *)

cC     == <<"C">>
cCcol  == <<"C", ":">>
cE     == <<"E", ":", "/">>
cZ     == <<"Z">>
cBlank == <<" ">>

\* The target lists rebuild_index is called with.
TargetLists ==
    { <<>>, <<cC>>, <<cE>>, <<cZ>>, <<cC, cCcol>>, <<cZ, cC>>, <<cC, cZ>>,
      <<cE, cC>>, <<cBlank, cE>> }

NoQuery == [ran |-> FALSE, q |-> <<>>, limit |-> 0, result |-> <<>>,
            ops |-> <<>>, error |-> "none"]

NoCount == [ran |-> FALSE, ok |-> FALSE, count |-> 0]

NoPrev == [ok |-> FALSE, targets |-> <<>>, paths |-> <<>>, recreate |-> "none"]

\* The rebuild was not started by a /qbuild command.
NoCmd == [qbuild |-> FALSE, arg |-> <<>>, missing |-> FALSE]

Running == pc \in {"loop", "walk"}

\* Lines 38-56 and the head of line 74: connect, ensure_schema, clear both
\* tables, commit; then iter(targets), which raises TypeError when the
\* caller c handed None for the targets.
RebuildStart(T, outcome, c) ==
    /\ ~Running
    /\ LET d1  == ensure_schema(connect(db), ftsAvail)
           hf  == ensure_schema_has_fts(ftsAvail)
           d2  == DeletePaths(d1)
           d3  == IF hf THEN RecreateFts(d2, outcome) ELSE d2
       IN  /\ IF hf THEN outcome \in RecreateOutcomes ELSE outcome = "none"
           /\ has_fts' = hf
           /\ db' = d3
           /\ tx' = d3
           /\ before' = d1.paths
    /\ recreate' = outcome
    /\ faults' = IF outcome \in {"dropfail", "createfail"} THEN faults + 1 ELSE faults
    /\ faults' <= MaxFaults
    /\ prev' = IF pc = "done"
               THEN [ok |-> TRUE, targets |-> targets, paths |-> db.paths,
                     recreate |-> recreate]
               ELSE NoPrev
    /\ targets' = T
    /\ ti' = 1
    /\ wi' = 0
    /\ batch' = <<>>
    /\ total' = 0
    /\ walked' = {}
    /\ scanned' = {}
    /\ pc' = IF c.missing THEN "raised" ELSE "loop"
    /\ cmd' = c
    /\ lastQuery' = NoQuery
    /\ lastCount' = NoCount
    /\ UNCHANGED <<fs, ftsAvail>>

\* rebuild_index called with a list of targets.
RebuildBegin(T, outcome) == RebuildStart(T, outcome, NoCmd)

\* Variant: the text goes to the rebuild as a list of one target.
CharactersAsOneTarget(text) == <<text>>

\* for tgt in targets, targets a str: the characters, one string each.
Characters(text) == [i \in 1..Len(text) |-> <<text[i]>>]

\* The /qbuild handler with an argument: m.group(1), the text after the
\* command, goes as it is to quick_build and on to rebuild_index.
QBuild(text, outcome) ==
    RebuildStart(Characters(text), outcome,
                 [qbuild |-> TRUE, arg |-> text, missing |-> FALSE])

\* The /qbuild handler without an argument: m.group(1) is None; the
\* TypeError of line 74 is caught and printed as "Quick-build error".
QBuildNoArgument(outcome) ==
    RebuildStart(<<>>, outcome,
                 [qbuild |-> TRUE, arg |-> <<>>, missing |-> TRUE])

\* Lines 74-84: the head of the for loop over the targets.
RebuildNextTarget ==
    /\ pc = "loop"
    /\ ti <= Len(targets)
    /\ IF Drive(targets[ti]) = <<>> \/ ~Exists(fs, Root(targets[ti]))
       THEN /\ ti' = ti + 1
            /\ UNCHANGED <<pc, scanned>>
       ELSE /\ pc' = "walk"
            /\ scanned' = scanned \cup {ti}
            /\ UNCHANGED ti
    /\ wi' = 0
    /\ batch' = <<>>
    /\ UNCHANGED <<fs, ftsAvail, db, tx, targets, total, has_fts, recreate,
                   before, walked, prev, lastQuery, faults,
                   lastCount, cmd>>

\* Lines 86-97: rglob raises; the outer except goes on with the next target,
\* past the flush of lines 99-101.
RebuildWalkError ==
    /\ pc = "walk"
    /\ wi \in fs[Root(targets[ti])].errAt
    /\ pc' = "loop"
    /\ ti' = ti + 1
    /\ batch' = <<>>
    /\ UNCHANGED <<fs, ftsAvail, db, tx, targets, wi, total, has_fts, recreate,
                   before, walked, scanned, prev, lastQuery, faults,
                   lastCount, cmd>>

\* Lines 86-94: rglob yields one path; a full batch is written. An exception
\* of add_batch is swallowed by the inner except, before `batch = []`.
RebuildWalkEntry ==
    /\ pc = "walk"
    /\ LET l == fs[Root(targets[ti])]
       IN  /\ wi \notin l.errAt
           /\ wi < Len(l.entries)
           /\ LET b == Append(batch, l.entries[wi + 1])
                  r == add_batch(tx, b, has_fts)
              IN  /\ walked' = walked \cup {l.entries[wi + 1]}
                  /\ IF Len(b) >= BatchSize
                     THEN /\ tx' = r.tx
                          /\ total' = total + r.added
                          /\ batch' = IF r.raised THEN b ELSE <<>>
                     ELSE /\ batch' = b
                          /\ UNCHANGED <<tx, total>>
    /\ wi' = wi + 1
    /\ UNCHANGED <<fs, ftsAvail, db, pc, targets, ti, has_fts, recreate,
                   before, scanned, prev, lastQuery, faults,
                   lastCount, cmd>>

\* Lines 99-101: the walk of the root is over; the rest of the batch is
\* written. An exception of add_batch here leaves rebuild_index: the
\* connection is dropped with its transaction open, which rolls it back.
RebuildEndOfRoot ==
    /\ pc = "walk"
    /\ LET l == fs[Root(targets[ti])]
           r == add_batch(tx, batch, has_fts)
       IN  /\ wi \notin l.errAt
           /\ wi = Len(l.entries)
           /\ IF batch = <<>>
              THEN /\ pc' = "loop"
                   /\ UNCHANGED <<tx, total>>
              ELSE IF r.raised
              THEN /\ pc' = "raised"
                   /\ tx' = db
                   /\ UNCHANGED total
              ELSE /\ pc' = "loop"
                   /\ tx' = r.tx
                   /\ total' = total + r.added
    /\ ti' = ti + 1
    /\ batch' = <<>>
    /\ UNCHANGED <<fs, ftsAvail, db, targets, wi, has_fts, recreate,
                   before, walked, scanned, prev, lastQuery, faults,
                   lastCount, cmd>>

\* Lines 103-107: commit, close, report.
RebuildFinish ==
    /\ pc = "loop"
    /\ ti > Len(targets)
    /\ db' = tx
    /\ pc' = "done"
    /\ UNCHANGED <<fs, ftsAvail, tx, targets, ti, wi, batch, total, has_fts,
                   recreate, before, walked, scanned, prev, lastQuery, faults,
                   lastCount, cmd>>

-----------------------------------------------------------------------------
(* Query helpers *)

\* str.split() with no argument: the maximal runs of non-whitespace.
RECURSIVE SplitWs(_, _, _)
SplitWs(s, cur, acc) ==
    IF s = <<>> THEN (IF cur = <<>> THEN acc ELSE Append(acc, cur))
    ELSE IF IsSpace(Head(s))
         THEN SplitWs(Tail(s), <<>>, IF cur = <<>> THEN acc ELSE Append(acc, cur))
         ELSE SplitWs(Tail(s), Append(cur, Head(s)), acc)

\* [t.strip().lower() for t in q.replace("\n", " ").split() if t.strip()]
_tokenize_query(q) ==
    LET q1    == [i \in 1..Len(q) |-> IF q[i] = "\n" THEN " " ELSE q[i]]
        parts == SplitWs(q1, <<>>, <<>>)
        kept  == SelectSeq(parts, LAMBDA t : Strip(t) # <<>>)
    IN  [i \in 1..Len(kept) |-> Lower(Strip(kept[i]))]

wServer     == <<"s", "e", "r", "v", "e", "r">>
wServers    == <<"s", "e", "r", "v", "e", "r", "s">>
wSrv        == <<"s", "r", "v">>
wInstance   == <<"i", "n", "s", "t", "a", "n", "c", "e">>
wWorld      == <<"w", "o", "r", "l", "d">>
wAtlauncher == <<"a", "t", "l", "a", "u", "n", "c", "h", "e", "r">>
wLauncher   == <<"l", "a", "u", "n", "c", "h", "e", "r">>

\* _SYNONYMS.get(t, [])
_SYNONYMS(t) ==
    CASE t = wServer     -> <<wServers, wSrv, wInstance, wWorld>>
      [] t = wServers    -> <<wServer, wSrv, wInstance, wWorld>>
      [] t = wAtlauncher -> <<wAtlauncher, wLauncher>>
      [] OTHER           -> <<>>

\* Append the elements of xs that are not in out yet, in order.
RECURSIVE AppendNew(_, _)
AppendNew(out, xs) ==
    IF xs = <<>> THEN out
    ELSE AppendNew(IF Head(xs) \in Range(out) THEN out ELSE Append(out, Head(xs)),
                   Tail(xs))

\* _expand_terms: each term followed by its synonyms, first occurrence kept.
RECURSIVE ExpandFrom(_, _)
ExpandFrom(terms, out) ==
    IF terms = <<>> THEN out
    ELSE ExpandFrom(Tail(terms),
                    AppendNew(out, <<Head(terms)>> \o _SYNONYMS(Head(terms))))

_expand_terms(terms) == ExpandFrom(terms, <<>>)

\* re.split(r"[\\/._\-\s]+", plow) without the empty pieces.
IsPathSep(c) == c \in {"\\", "/", ".", "_", "-"} \/ IsSpace(c)

RECURSIVE SplitPath(_, _, _)
SplitPath(s, cur, acc) ==
    IF s = <<>> THEN (IF cur = <<>> THEN acc ELSE Append(acc, cur))
    ELSE IF IsPathSep(Head(s))
         THEN SplitPath(Tail(s), <<>>, IF cur = <<>> THEN acc ELSE Append(acc, cur))
         ELSE SplitPath(Tail(s), Append(cur, Head(s)), acc)

_path_tokens(plow) == SplitPath(plow, <<>>, <<>>)

\* os.path.basename (ntpath): what follows the last separator.
RECURSIVE Basename(_)
Basename(p) ==
    IF p = <<>> THEN <<>>
    ELSE IF p[Len(p)] \in {"/", "\\"} THEN <<>>
    ELSE Append(Basename(SubSeq(p, 1, Len(p) - 1)), p[Len(p)])

-----------------------------------------------------------------------------
(* SQL matching *)

\* s LIKE pat in SQLite: % is any run of characters, _ any one character,
\* other characters compare case-insensitively.
RECURSIVE Like(_, _)
Like(pat, s) ==
    IF pat = <<>> THEN s = <<>>
    ELSE IF Head(pat) = "%"
         THEN \E k \in 0..Len(s) : Like(Tail(pat), SubSeq(s, k + 1, Len(s)))
         ELSE /\ s # <<>>
              /\ (Head(pat) = "_" \/ LowerChar(Head(pat)) = LowerChar(Head(s)))
              /\ Like(Tail(pat), Tail(s))

\* f"%{t}%"
LikeParam(t) == <<"%">> \o t \o <<"%">>

\* Variant: the SELECTs join the mirror table and raise when it is missing.
SelectErrorNeedsMirror(d) ==
    IF d.locked THEN "database is locked"
    ELSE IF ~d.hasPaths \/ ~d.hasFts THEN "no such table"
    ELSE "none"

\* The exception cur.execute raises for a SELECT on the store d, if any.
SelectError(d) ==
    IF d.locked THEN "database is locked"
    ELSE IF ~d.hasPaths THEN "no such table"
    ELSE "none"

\* SELECT path FROM paths WHERE <cond> LIMIT n, rows in rowid order. When the
\* statement raises, both callers catch the exception and go on with [].
SelectAnd(d, params, n) ==
    IF SelectError(d) # "none" THEN <<>>
    ELSE Slice(SelectSeq(d.paths,
                   LAMBDA p : \A i \in 1..Len(params) : Like(params[i], Lower(p))),
               0, n)

SelectOr(d, params, n) ==
    IF SelectError(d) # "none" THEN <<>>
    ELSE Slice(SelectSeq(d.paths,
                   LAMBDA p : \E i \in 1..Len(params) : Like(params[i], Lower(p))),
               0, n)

-----------------------------------------------------------------------------
(* difflib.SequenceMatcher(None, a, b).ratio(), as an exact fraction *)

RECURSIVE Gcd(_, _)
Gcd(a, b) == IF b = 0 THEN a ELSE Gcd(b, a % b)

\* The fraction n/d (d > 0, n >= 0) in lowest terms.
Frac(n, d) == LET g == Gcd(n, d) IN [n |-> n \div g, d |-> d \div g]

FracAdd(x, y) == Frac(x.n * y.d + y.n * x.d, x.d * y.d)

FracLess(x, y) == x.n * y.d < y.n * x.d

FracMax(x, y) == IF FracLess(x, y) THEN y ELSE x

\* Length of the longest common run of a and b that starts at a[i], b[j].
RECURSIVE RunLen(_, _, _, _)
RunLen(a, b, i, j) ==
    IF i > Len(a) \/ j > Len(b) THEN 0
    ELSE IF a[i] # b[j] THEN 0
    ELSE 1 + RunLen(a, b, i + 1, j + 1)

\* find_longest_match without junk: the longest common block, the one that
\* starts earliest in a and, of those, earliest in b. <<0, 0, 0>> if none.
LongestMatch(a, b) ==
    LET pairs == (1..Len(a)) \X (1..Len(b))
        best  == IF pairs = {} THEN 0
                 ELSE LET ks == {RunLen(a, b, ij[1], ij[2]) : ij \in pairs}
                      IN  CHOOSE k \in ks : \A k2 \in ks : k2 <= k
    IN  IF best = 0 THEN <<0, 0, 0>>
        ELSE LET hits == {ij \in pairs : RunLen(a, b, ij[1], ij[2]) = best}
                 i    == CHOOSE x \in {ij[1] : ij \in hits} :
                            \A y \in {ij[1] : ij \in hits} : x <= y
                 j    == CHOOSE x \in {ij[2] : ij \in {h \in hits : h[1] = i}} :
                            \A y \in {ij[2] : ij \in {h \in hits : h[1] = i}} : x <= y
             IN  <<i, j, best>>

\* Sum of the sizes of get_matching_blocks(): the longest match, then the
\* same to its left and to its right.
RECURSIVE MatchSize(_, _)
MatchSize(a, b) ==
    LET m == LongestMatch(a, b)
    IN  IF m[3] = 0 THEN 0
        ELSE m[3]
             + MatchSize(SubSeq(a, 1, m[1] - 1), SubSeq(b, 1, m[2] - 1))
             + MatchSize(SubSeq(a, m[1] + m[3], Len(a)), SubSeq(b, m[2] + m[3], Len(b)))

\* ratio(): 2.0 * matches / (len(a) + len(b)), and 1.0 for two empty strings.
Ratio(a, b) ==
    IF Len(a) + Len(b) = 0 THEN Frac(1, 1)
    ELSE Frac(2 * MatchSize(a, b), Len(a) + Len(b))

\* int(round(base + 40 * x)) for a fraction x >= 0 and an integer base:
\* Python rounds a half to the even neighbour. The integer base is kept out
\* of the division, so that the products stay small.
RoundScore(base, x) ==
    LET n  == 40 * x.n
        d  == x.d
        fl == n \div d
        r2 == 2 * (n - fl * d)
    IN  IF r2 < d THEN base + fl
        ELSE IF r2 > d THEN base + fl + 1
        ELSE IF (base + fl) % 2 = 0 THEN base + fl ELSE base + fl + 1

-----------------------------------------------------------------------------
(* advanced_query_paths *)

\* Variant: the cap is one row higher.
CandidateMaxLoose(limit) == Max(limit * CapFactor, CapFloor) + 1

\* candidate_max = max(limit * 80, 2000)
CandidateMax(limit) == Max(limit * CapFactor, CapFloor)

\* Lines 181-188: every expanded term, and the first three characters of
\* each term of length >= 3.
RECURSIVE LikeTermsFrom(_, _)
LikeTermsFrom(expanded, out) ==
    IF expanded = <<>> THEN out
    ELSE LET t  == Head(expanded)
             o1 == AppendNew(out, <<t>>)
             o2 == IF Len(t) >= 3 THEN AppendNew(o1, <<Slice(t, 0, 3)>>) ELSE o1
         IN  LikeTermsFrom(Tail(expanded), o2)

LikeTerms(expanded) == LikeTermsFrom(expanded, <<>>)

\* Lines 166-177: the AND query over the core terms.
PhaseA(d, core_terms, limit) ==
    SelectAnd(d, [i \in 1..Len(core_terms) |-> LikeParam(core_terms[i])],
              CandidateMax(limit))

\* Variant: the rows of the OR query go after the candidates, those that
\* the AND query had found included.
PhaseBAddsAgain(d, candidates, expanded, limit) ==
    IF Len(candidates) < limit
    THEN LET lt == LikeTerms(expanded)
         IN  candidates \o SelectOr(d, [i \in 1..Len(lt) |-> LikeParam(lt[i])],
                                    CandidateMax(limit))
    ELSE candidates

\* Lines 180-206: the OR query, run when the AND query found fewer than
\* `limit` paths; its new paths go after the candidates.
PhaseB(d, candidates, expanded, limit) ==
    IF Len(candidates) < limit
    THEN LET lt    == LikeTerms(expanded)
             extra == SelectOr(d, [i \in 1..Len(lt) |-> LikeParam(lt[i])],
                               CandidateMax(limit))
         IN  AppendNew(candidates, extra)
    ELSE candidates

\* Lines 210-216.
Deduplicate(candidates) == AppendNew(<<>>, candidates)

\* Variant: a core term is present as a substring only.
PresentLiteral(t, plow, tokens) == Contains(plow, t)

\* Lines 226-237: the core terms present in the path, one entry per term of
\* the query: as a substring, or by a segment with ratio * 100 >= 70.
Present(t, plow, tokens) ==
    \/ Contains(plow, t)
    \/ \E k \in 1..Len(tokens) :
          LET r == Ratio(t, tokens[k]) IN r.n * 100 >= 70 * r.d

\* Variant: a term that the query repeats is counted once.
ContainsCoreDistinct(core_terms, plow) ==
    SelectSeq(AppendNew(<<>>, core_terms),
              LAMBDA t : Present(t, plow, _path_tokens(plow)))

ContainsCore(core_terms, plow) ==
    SelectSeq(core_terms, LAMBDA t : Present(t, plow, _path_tokens(plow)))

\* Variant: the coverage part without the AND-first block of lines 241-250.
CoverageScoreFlat(n, c) == 15 * c

\* Lines 241-255: the coverage part of the score.
CoverageScore(n, c) ==
    (IF n > 1
     THEN (IF c >= n THEN 140 ELSE -(90 * (n - c)))
     ELSE (IF c >= n THEN 40 ELSE 0))
    + 15 * c

\* Lines 258-267: fmax + favg / 2 over the expanded terms, as ratios; the
\* code adds 0.4 * fmax + 0.2 * favg of the percentages, 40 times this.
RECURSIVE FuzzySum(_, _, _)
FuzzySum(expanded, basename, plow) ==
    IF expanded = <<>> THEN Frac(0, 1)
    ELSE FracAdd(FracMax(Ratio(Head(expanded), basename), Ratio(Head(expanded), plow)),
                 FuzzySum(Tail(expanded), basename, plow))

RECURSIVE FuzzyMax(_, _, _)
FuzzyMax(expanded, basename, plow) ==
    IF expanded = <<>> THEN Frac(0, 1)
    ELSE FracMax(FracMax(Ratio(Head(expanded), basename), Ratio(Head(expanded), plow)),
                 FuzzyMax(Tail(expanded), basename, plow))

FuzzyBonus(expanded, basename, plow) ==
    IF expanded = <<>> THEN Frac(0, 1)
    ELSE LET sum == FuzzySum(expanded, basename, plow)
         IN  FracAdd(FuzzyMax(expanded, basename, plow),
                     Frac(sum.n, 2 * Len(expanded) * sum.d))

\* Lines 220-272: the score of one candidate.
Score(p, core_terms, expanded) ==
    LET plow == Lower(p)
        c    == Len(ContainsCore(core_terms, plow))
    IN  RoundScore(CoverageScore(Len(core_terms), c),
                   FuzzyBonus(expanded, Lower(Basename(p)), plow))

\* Variant: the sort key is the score alone.
SortResultsByScore(rs) ==
    LET n == Len(rs)
        Before(i, j) ==
            \/ rs[i].score > rs[j].score
            \/ rs[i].score = rs[j].score /\ i < j
        rank(i) == 1 + Cardinality({j \in 1..n : Before(j, i)})
    IN  [k \in 1..n |-> rs[CHOOSE i \in 1..n : rank(i) = k]]

\* results.sort(key=lambda r: (-r["score"], len(r["path"]))): a stable sort.
SortResults(rs) ==
    LET n == Len(rs)
        Before(i, j) ==
            \/ rs[i].score > rs[j].score
            \/ rs[i].score = rs[j].score /\ Len(rs[i].path) < Len(rs[j].path)
            \/ rs[i].score = rs[j].score /\ Len(rs[i].path) = Len(rs[j].path) /\ i < j
        rank(i) == 1 + Cardinality({j \in 1..n : Before(j, i)})
    IN  [k \in 1..n |-> rs[CHOOSE i \in 1..n : rank(i) = k]]

\* Variant: the slice is off by one.
TruncateOffByOne(rs, limit) ==
    IF limit >= 0 THEN Slice(rs, 0, limit + 1) ELSE Slice(rs, 0, Len(rs) + limit)

\* results[:limit], with Python's meaning of a negative bound.
Truncate(rs, limit) ==
    IF limit >= 0 THEN Slice(rs, 0, limit) ELSE Slice(rs, 0, Len(rs) + limit)

\* Lines 166-216: the candidate list of a query, duplicates removed.
Candidates(d, q, limit) ==
    LET terms == _tokenize_query(q)
    IN  IF terms = <<>> THEN <<>>
        ELSE Deduplicate(PhaseB(d, PhaseA(d, terms, limit),
                                _expand_terms(terms), limit))

\* The list advanced_query_paths returns on the store d.
advanced_query_paths(d, q, limit) ==
    LET terms == _tokenize_query(q)
    IN  IF terms = <<>> THEN <<>>
        ELSE LET expanded == _expand_terms(terms)
                 cands    == PhaseB(d, PhaseA(d, terms, limit), expanded, limit)
                 unique   == Deduplicate(cands)
                 results  == [i \in 1..Len(unique) |->
                                 [path  |-> unique[i],
                                  score |-> Score(unique[i], terms, expanded)]]
             IN  Truncate(SortResults(results), limit)

\* Variant: the query opens the store the way rebuild_index does, schema
\* check and clear included.
QueryStoreClears(d, q) ==
    IF _tokenize_query(q) = <<>> THEN d
    ELSE [connect(d) EXCEPT !.hasPaths = TRUE, !.paths = <<>>]

\* Variant: the query connects before it looks at its terms.
QueryStoreConnectsFirst(d, q) == connect(d)

\* What a query does to the database file: with terms it connects (line 160),
\* runs SELECTs and closes; without terms it returns before connecting.
QueryStore(d, q) == IF _tokenize_query(q) = <<>> THEN d ELSE connect(d)

qAb    == <<"a", "b">>
qAandB == <<"A", " ", "b">>
qC     == <<"c">>
qX     == <<"x">>
qB     == <<"b">>
qBlank == <<" ">>

\* The query texts and limits of the model.
Queries == {qAb, qAandB, qC, qX, qBlank, <<>>}

Limits == {-1, 0, 1, 3, 20}

\* The storage operations a call performs on the store d, in order: none
\* without terms (line 155 returns before line 160), else connect, the AND
\* SELECT, the OR SELECT when the AND one found fewer than limit paths, close.
QueryOps(d, q, limit) ==
    LET terms == _tokenize_query(q)
    IN  IF terms = <<>> THEN <<>>
        ELSE <<"connect", "select">>
             \o (IF Len(PhaseA(d, terms, limit)) < limit THEN <<"select">> ELSE <<>>)
             \o <<"close">>

\* The exception the SELECTs of a call raise, and the except clauses of lines
\* 176 and 199 swallow, on the store d.
QueryError(d, q) ==
    IF _tokenize_query(q) = <<>> THEN "none" ELSE SelectError(d)

\* What a call of advanced_query_paths on the store d hands to its caller.
QueryCall(d, q, limit) ==
    [ran |-> TRUE, q |-> q, limit |-> limit,
     result |-> advanced_query_paths(d, q, limit),
     ops |-> QueryOps(d, q, limit),
     error |-> QueryError(d, q)]

\* A call of advanced_query_paths (super_find) on the committed database.
Query(q, limit) ==
    /\ lastQuery' = QueryCall(db, q, limit)
    /\ db' = QueryStore(db, q)
    /\ UNCHANGED <<fs, ftsAvail, tx, pc, targets, ti, wi, batch, total, has_fts,
                   recreate, before, walked, scanned, prev, faults, lastCount,
                   cmd>>

\* The same call while another process holds the lock of the database file:
\* connect succeeds, every SELECT raises.
QueryLocked(q, limit) ==
    /\ db.file
    /\ lastQuery' = QueryCall(Locked(db), q, limit)
    /\ db' = QueryStore(db, q)
    /\ UNCHANGED <<fs, ftsAvail, tx, pc, targets, ti, wi, batch, total, has_fts,
                   recreate, before, walked, scanned, prev, faults, lastCount,
                   cmd>>

-----------------------------------------------------------------------------
(* The /qcount command *)

\* The names path_index_local.py binds at module level: its imports, its
\* constants and its functions.
PathIndexNames ==
    { "os", "time", "sqlite3", "difflib", "re", "Path", "List", "Dict", "Any",
      "DEFAULT_DB", "get_default_db", "connect", "ensure_schema",
      "rebuild_index", "quick_build", "_tokenize_query", "_SYNONYMS",
      "_expand_terms", "_path_tokens", "advanced_query_paths", "super_find" }

\* from path_index_local import <name>: raises ImportError for a name the
\* module does not define.
ImportOk(name) == name \in PathIndexNames

\* The /qcount handler: import quick_count, call it and print the count; any
\* exception is caught and printed as "Quick-count error".
QCount ==
    /\ lastCount' = IF ImportOk("quick_count")
                    THEN [ran |-> TRUE, ok |-> TRUE, count |-> Len(db.paths)]
                    ELSE [ran |-> TRUE, ok |-> FALSE, count |-> 0]
    /\ UNCHANGED <<fs, ftsAvail, db, tx, pc, targets, ti, wi, batch, total,
                   has_fts, recreate, before, walked, scanned, prev, lastQuery,
                   faults, cmd>>

-----------------------------------------------------------------------------
(* The specification *)

Init ==
    /\ fs \in Snapshots
    /\ ftsAvail \in BOOLEAN
    /\ db = NoDb
    /\ tx = NoDb
    /\ pc = "idle"
    /\ targets = <<>>
    /\ ti = 1
    /\ wi = 0
    /\ batch = <<>>
    /\ total = 0
    /\ has_fts = FALSE
    /\ recreate = "none"
    /\ before = <<>>
    /\ walked = {}
    /\ scanned = {}
    /\ prev = NoPrev
    /\ lastQuery = NoQuery
    /\ faults = 0
    /\ lastCount = NoCount
    /\ cmd = NoCmd

\* Queries are issued here while no rebuild is running, one per quiet period:
\* a query changes nothing a later query reads, so a second one reaches no
\* state the first does not.
Next ==
    \/ \E T \in TargetLists, o \in RecreateOutcomes \cup {"none"} : RebuildBegin(T, o)
    \/ RebuildNextTarget
    \/ RebuildWalkError
    \/ RebuildWalkEntry
    \/ RebuildEndOfRoot
    \/ RebuildFinish
    \/ \E q \in Queries, l \in Limits : ~Running /\ ~lastQuery.ran /\ Query(q, l)

Spec == Init /\ [][Next]_vars

-----------------------------------------------------------------------------
(* The specification with concurrent callers *)

cDir == dirAb

\* The target lists of the rebuilds that run next to other callers.
ApiTargetLists == { <<cC>>, <<cE, cCcol>>, <<cDir>>, <<cDir, cE>> }

ApiQueries == {qAandB, qB, qC, qBlank}

ApiLimits == {1, 20}

\* A readable filesystem.
InitApi == Init /\ fs = Snapshot({})

\* Rebuilds whose mirror recreation succeeds, on a readable filesystem, with
\* queries and /qcount commands of other callers at any moment, a rebuild
\* in progress included.
NextApi ==
    \/ \E T \in ApiTargetLists : RebuildBegin(T, IF ftsAvail THEN "ok" ELSE "none")
    \/ RebuildNextTarget
    \/ RebuildWalkEntry
    \/ RebuildEndOfRoot
    \/ RebuildFinish
    \/ \E q \in ApiQueries, l \in ApiLimits : Query(q, l)
    \/ \E q \in ApiQueries, l \in ApiLimits : QueryLocked(q, l)
    \/ QCount

SpecApi == InitApi /\ [][NextApi]_vars

-----------------------------------------------------------------------------
(* The specification of the /qbuild command *)

aCE == <<"C", " ", "E">>
aCC == <<"C", "C">>
aEcol == <<"E", ":">>

\* The argument texts of the /qbuild commands.
QBuildArgs == {aCE, aCC, aEcol, cDir}

\* The target lists of the rebuilds other callers start.
CmdTargetLists == { <<cC, cCcol>>, <<cE>> }

\* How the recreation of the mirror ends in these rebuilds.
CmdOutcomes == {"ok", "createfail", "none"}

\* /qbuild commands with and without an argument, and rebuilds of other
\* callers, on a readable filesystem.
NextCmd ==
    \/ \E T \in CmdTargetLists, o \in CmdOutcomes : RebuildBegin(T, o)
    \/ \E a \in QBuildArgs, o \in CmdOutcomes : QBuild(a, o)
    \/ \E o \in CmdOutcomes : QBuildNoArgument(o)
    \/ RebuildNextTarget
    \/ RebuildWalkEntry
    \/ RebuildEndOfRoot
    \/ RebuildFinish

SpecCmd == InitApi /\ [][NextCmd]_vars

-----------------------------------------------------------------------------
(* The specification of queries on a prepared index *)

pWorld ==
    <<"/", "s", "r", "v", "/", "m", "i", "n", "e", "c", "r", "a", "f", "t",
      "/", "s", "e", "r", "v", "e", "r", "1", "/", "w", "o", "r", "l", "d">>
pLogs ==
    <<"/", "s", "r", "v", "/", "m", "i", "n", "e", "c", "r", "a", "f", "t",
      "/", "s", "e", "r", "v", "e", "r", "2", "/", "l", "o", "g", "s">>
pSrv ==
    <<"/", "s", "r", "v">>
pNotes ==
    <<"/", "h", "o", "m", "e", "/", "n", "o", "t", "e", "s">>

pSrvA ==
    <<"/", "s", "r", "v", "/", "a">>
pSrvB ==
    <<"/", "s", "r", "v", "/", "b">>
pMin ==
    <<"/", "m", "i", "n">>
pLauncher ==
    <<"/", "a", "t", "l", "a", "u", "n", "c", "h", "e", "r",
      "/", "s", "e", "r", "v", "e", "r", "s">>
pMisspelt ==
    <<"/", "A", "t", "l", "L", "a", "u", "n", "c", "h", "e", "r",
      "/", "s", "e", "r", "v", "e", "r", "s">>

\* The rows of the primary table of the database files the queries are run on.
ScoreIndexes ==
    { <<>>, <<pNotes>>, <<pLogs, pWorld>>, <<pWorld, pLogs>>,
      <<pSrv, pLogs, pWorld>>, <<pNotes, pLogs, pWorld, pSrv>>,
      <<pMisspelt>>, <<pLauncher, pMisspelt>>,
      <<pSrv, pSrvA, pSrvB, pMin, pLogs, pWorld>> }

qServerWorld ==
    <<"s", "e", "r", "v", "e", "r", " ", "w", "o", "r", "l", "d">>
qSrvMinecraft ==
    <<"s", "r", "v", " ", "m", "i", "n", "e", "c", "r", "a", "f", "t">>
qServer ==
    <<"s", "e", "r", "v", "e", "r">>

qLauncherServers ==
    <<"a", "t", "l", "a", "u", "n", "c", "h", "e", "r", " ",
      "s", "e", "r", "v", "e", "r", "s">>
qWildcard ==
    <<"s", "_", "v">>
qSrvSrv ==
    <<"s", "r", "v", " ", "s", "r", "v">>

ScoreQueries ==
    {qServerWorld, qSrvMinecraft, qServer, qBlank, qLauncherServers, qWildcard,
     qSrvSrv}

ScoreLimits == {1, 3, 20}

\* A database file with the given rows, with the mirror when fts5 is there.
PreparedStore(ps, avail) ==
    [file |-> TRUE, hasPaths |-> TRUE, paths |-> ps,
     hasFts |-> avail, fts |-> IF avail THEN ps ELSE <<>>, locked |-> FALSE]

\* advanced_query_paths takes the database file as its argument db: the
\* file is an input of the call, drawn here from the prepared indexes.
InitScore ==
    /\ fs = Snapshot({})
    /\ ftsAvail \in BOOLEAN
    /\ \E ps \in ScoreIndexes : db = PreparedStore(ps, ftsAvail)
    /\ tx = db
    /\ pc = "idle"
    /\ targets = <<>>
    /\ ti = 1
    /\ wi = 0
    /\ batch = <<>>
    /\ total = 0
    /\ has_fts = FALSE
    /\ recreate = "none"
    /\ before = <<>>
    /\ walked = {}
    /\ scanned = {}
    /\ prev = NoPrev
    /\ lastQuery = NoQuery
    /\ faults = 0
    /\ lastCount = NoCount
    /\ cmd = NoCmd

\* One call of advanced_query_paths on the prepared index.
NextScore ==
    \E q \in ScoreQueries, l \in ScoreLimits : ~lastQuery.ran /\ Query(q, l)

SpecScore == InitScore /\ [][NextScore]_vars

-----------------------------------------------------------------------------
(* Properties *)

\* Number of occurrences of x in the sequence s.
Count(s, x) == Cardinality({i \in 1..Len(s) : s[i] = x})

NoDuplicates(s) == \A i, j \in 1..Len(s) : s[i] = s[j] => i = j

\* A rebuild has returned or raised.
Ended == pc \in {"done", "raised"}

\* The mirror recreation of this rebuild did not fail.
NoStorageFault == recreate \in {"ok", "none"}

\* The target indexes of this rebuild whose root exists.
ExistingTargets ==
    {j \in 1..Len(targets) :
        Drive(targets[j]) # <<>> /\ Exists(fs, Root(targets[j]))}

\* The target indexes of this rebuild that name a root which does not exist.
MissingTargets ==
    {j \in 1..Len(targets) :
        Drive(targets[j]) # <<>> /\ ~Exists(fs, Root(targets[j]))}

\* C1: after a rebuild that completed, the Path Records in the index are
\* exactly the paths the walk enumerated during this rebuild.
C1_FullReplace ==
    pc = "done" => Range(db.paths) = walked

\* C2: in every state the primary table, committed or inside the rebuild's
\* transaction, stores no path twice, and a rebuild never stores more rows
\* than the distinct paths presented to it.
C2_Uniqueness ==
    /\ NoDuplicates(db.paths)
    /\ NoDuplicates(tx.paths)
    /\ pc # "idle" => Len(tx.paths) <= Cardinality(walked)

\* A rebuild over two targets of the same root ended: every path was
\* presented twice (total counts both) and is stored once.
C2_Witness ==
    /\ pc = "done"
    /\ targets = <<cC, cCcol>>
    /\ total = 6
    /\ Len(db.paths) = 3

\* C3: whenever the mirror exists after a completed rebuild, its rows are the
\* rows of the primary table, each as often as there.
C3_MirrorConsistency ==
    (pc = "done" /\ db.hasFts) =>
        \A p \in Range(db.paths) \cup Range(db.fts) :
            Count(db.fts, p) = Count(db.paths, p)

\* C4: a rebuild that completes right after a completed rebuild with the same
\* targets, on the same snapshot and with no storage fault in either, leaves
\* the Path Records (and so the count and every query result) of the first.
C4_Idempotent ==
    (/\ pc = "done"
     /\ prev.ok
     /\ prev.targets = targets
     /\ NoStorageFault
     /\ prev.recreate \in {"ok", "none"}) =>
        /\ Range(db.paths) = Range(prev.paths)
        /\ Len(db.paths) = Len(prev.paths)
        /\ \A q \in Queries, l \in {1, 20} :
              advanced_query_paths(db, q, l)
                  = advanced_query_paths([db EXCEPT !.paths = prev.paths], q, l)

\* The second of two rebuilds with the same targets ended, on an index that
\* held other records before the first and holds records now.
C4_Witness ==
    /\ pc = "done"
    /\ prev.ok
    /\ prev.targets = targets
    /\ NoStorageFault
    /\ prev.recreate \in {"ok", "none"}
    /\ db.paths # <<>>
    /\ targets = <<cE>>

\* C5: a rebuild with no targets ends without raising and leaves no Path
\* Record, whatever the index held.
C5_EmptyTargets ==
    (Ended /\ targets = <<>>) => (pc = "done" /\ db.paths = <<>>)

\* A rebuild with no targets ended on an index that held records.
C5_Witness ==
    /\ pc = "done"
    /\ targets = <<>>
    /\ before # <<>>
    /\ db.paths = <<>>

\* C6: a rebuild one of whose targets names a missing root does not raise,
\* and every other target with a readable root is walked and has its paths
\* in the final index.
C6_MissingRoot ==
    (Ended /\ NoStorageFault /\ MissingTargets # {}) =>
        /\ pc = "done"
        /\ \A j \in ExistingTargets :
              LET l == fs[Root(targets[j])]
              IN  0 \notin l.errAt =>
                     /\ j \in scanned
                     /\ Range(l.entries) \subseteq Range(db.paths)

\* C7: a rebuild does not abort on a walk error, and every readable path of
\* every root whose walk got as far as an entry, before and after the failing
\* entry, is in the final index.
C7_WalkErrorIsolation ==
    (Ended /\ NoStorageFault) =>
        /\ pc = "done"
        /\ walked \subseteq Range(db.paths)
        /\ \A j \in scanned :
              LET l == fs[Root(targets[j])]
              IN  0 \notin l.errAt => Range(l.entries) \subseteq Range(db.paths)

\* C8: a step in which a query returns leaves the rows of the primary table
\* and of the mirror, committed and inside a rebuild's transaction, unchanged.
C8_QueryReadOnly ==
    [][(lastQuery'.ran /\ lastQuery' # lastQuery) =>
          /\ db'.paths = db.paths
          /\ db'.fts = db.fts
          /\ tx'.paths = tx.paths
          /\ tx'.fts = tx.fts]_vars

\* A query with terms returned nothing on an index that holds records.
C8_Witness ==
    /\ lastQuery.ran
    /\ _tokenize_query(lastQuery.q) # <<>>
    /\ lastQuery.result = <<>>
    /\ Len(db.paths) = 4

\* C9: a query with a limit >= 1 returns at most limit entries.
C9_LimitRespected ==
    (lastQuery.ran /\ lastQuery.limit >= 1) =>
        Len(lastQuery.result) <= lastQuery.limit

\* A query whose AND phase found fewer paths than the limit, whose OR phase
\* lifted the candidates above the limit, returned exactly limit entries.
C9_Witness ==
    /\ lastQuery.ran
    /\ lastQuery.limit = 3
    /\ Len(lastQuery.result) = 3
    /\ LET terms == _tokenize_query(lastQuery.q)
       IN  /\ Len(PhaseA(db, terms, 3)) < 3
           /\ Len(PhaseB(db, PhaseA(db, terms, 3), _expand_terms(terms), 3)) > 3

\* C10: a query with a limit <= 0 returns what the same query returns with
\* the default limit 20 on the same index.
C10_InvalidLimitDefault ==
    (lastQuery.ran /\ lastQuery.limit <= 0) =>
        lastQuery.result = advanced_query_paths(db, lastQuery.q, 20)

\* A step in which a call of advanced_query_paths returns.
QueryStep == lastQuery'.ran /\ lastQuery' # lastQuery

\* C11: a query whose text has no terms (empty or whitespace only) returns
\* the empty list and performs no storage operation: no connect, no SELECT,
\* and the database file is as it was, a missing file is still missing.
C11_EmptyQueryShortCircuit ==
    [][(QueryStep /\ _tokenize_query(lastQuery'.q) = <<>>) =>
          /\ lastQuery'.result = <<>>
          /\ lastQuery'.ops = <<>>
          /\ db' = db]_vars

\* A whitespace-only query returned on a store whose file does not exist,
\* and the file still does not exist.
C11_Witness ==
    /\ lastQuery.ran
    /\ lastQuery.q = qBlank
    /\ lastQuery.result = <<>>
    /\ ~db.file

\* The store a query call read: the committed database, locked or not.
StoreRead(d, lq) == IF lq.error = "database is locked" THEN Locked(d) ELSE d

\* The result r1 ranks strictly before r2: a higher score, or the same score
\* and a shorter path.
RanksBefore(r1, r2) ==
    \/ r1.score > r2.score
    \/ r1.score = r2.score /\ Len(r1.path) < Len(r2.path)

\* The result entry of the candidate p for the query q.
Scored(p, q) ==
    [path  |-> p,
     score |-> Score(p, _tokenize_query(q), _expand_terms(_tokenize_query(q)))]

\* C12: the list a query with limit >= 1 returns holds min(limit, number of
\* candidates) distinct candidates with their scores; of two adjacent results
\* the first has the higher score, or the same score and a path that is not
\* longer; and no candidate left out ranks strictly before a returned one.
C12_RankingOrder ==
    [][(QueryStep /\ lastQuery'.limit >= 1) =>
          LET q     == lastQuery'.q
              res   == lastQuery'.result
              cands == Candidates(StoreRead(db, lastQuery'), q, lastQuery'.limit)
          IN  /\ Len(res) = Min(lastQuery'.limit, Len(cands))
              /\ \A i \in 1..Len(res) :
                    res[i].path \in Range(cands) /\ res[i] = Scored(res[i].path, q)
              /\ \A i, j \in 1..Len(res) : res[i].path = res[j].path => i = j
              /\ \A i \in 1..(Len(res) - 1) :
                    \/ res[i].score > res[i + 1].score
                    \/ /\ res[i].score = res[i + 1].score
                       /\ Len(res[i].path) <= Len(res[i + 1].path)
              /\ \A p \in Range(cands) \ {res[i].path : i \in 1..Len(res)} :
                    \A i \in 1..Len(res) : ~RanksBefore(Scored(p, q), res[i])]_vars

\* A query with limit 1 returned the shorter of two candidates with the top
\* score; the longer one, stored before it, was left out.
C12_Witness ==
    /\ lastQuery.ran
    /\ lastQuery.limit = 1
    /\ Len(lastQuery.result) = 1
    /\ \E k \in 1..Len(db.paths) :
          LET p == db.paths[k]
              r == lastQuery.result[1]
          IN  /\ Scored(p, lastQuery.q).score = r.score
              /\ Len(p) > Len(r.path)
              /\ \E k2 \in (k + 1)..Len(db.paths) : db.paths[k2] = r.path

\* Every core term of the query q is contained in the path p (lines 226-237).
AllCoreContained(p, q) ==
    Len(ContainsCore(_tokenize_query(q), Lower(p))) = Len(_tokenize_query(q))

\* Position of the path p in the result list res, 0 when it is not there.
PositionIn(res, p) ==
    IF \E i \in 1..Len(res) : res[i].path = p
    THEN CHOOSE i \in 1..Len(res) : res[i].path = p
    ELSE 0

\* C13: in a query with two or more core terms, every candidate that
\* contains all core terms scores strictly higher than every candidate that
\* misses one, the fuzzy bonus of each being within 0..60 (0..3/2 in units
\* of 40); so the former is returned before the latter, and is returned
\* whenever the latter is. query("server world") on an index holding
\* /srv/minecraft/server1/world and /srv/minecraft/server2/logs is a case.
C13_AndFirstRanking ==
    [][(QueryStep /\ Len(_tokenize_query(lastQuery'.q)) >= 2) =>
          LET q     == lastQuery'.q
              res   == lastQuery'.result
              exp   == _expand_terms(_tokenize_query(q))
              cands == Range(Candidates(db, q, lastQuery'.limit))
          IN  /\ \A p \in cands :
                    LET f == FuzzyBonus(exp, Lower(Basename(p)), Lower(p))
                    IN  f.n >= 0 /\ 2 * f.n <= 3 * f.d
              /\ \A p1, p2 \in cands :
                    (AllCoreContained(p1, q) /\ ~AllCoreContained(p2, q)) =>
                        /\ Scored(p1, q).score > Scored(p2, q).score
                        /\ PositionIn(res, p2) # 0 =>
                              /\ PositionIn(res, p1) # 0
                              /\ PositionIn(res, p1) < PositionIn(res, p2)]_vars

\* query("server world") returned /srv/minecraft/server1/world, which holds
\* both terms, before /srv/minecraft/server2/logs, which holds one and was
\* stored first.
C13_Witness ==
    /\ lastQuery.ran
    /\ lastQuery.q = qServerWorld
    /\ db.paths = <<pLogs, pWorld>>
    /\ Len(lastQuery.result) = 2
    /\ lastQuery.result[1].path = pWorld
    /\ lastQuery.result[2].path = pLogs
    /\ AllCoreContained(pWorld, qServerWorld)
    /\ ~AllCoreContained(pLogs, qServerWorld)

\* The store d without the mirror, and with a mirror of its primary table.
WithoutMirror(d) == [d EXCEPT !.hasFts = FALSE, !.fts = <<>>]

WithMirror(d) == [d EXCEPT !.hasFts = TRUE, !.fts = d.paths]

\* C14: what a query returns is what the same query returns on the same
\* primary table without the mirror, and with it: the result depends on the
\* primary table alone.
C14_DegradedAccelerator ==
    [][QueryStep =>
          LET d == StoreRead(db, lastQuery')
              q == lastQuery'.q
              l == lastQuery'.limit
          IN  /\ lastQuery'.result = advanced_query_paths(WithoutMirror(d), q, l)
              /\ lastQuery'.result = advanced_query_paths(WithMirror(d), q, l)]_vars

\* A query returned several paths from an index that a rebuild filled on a
\* build without fts5, so without the mirror.
C14_Witness ==
    /\ lastQuery.ran
    /\ Len(lastQuery.result) >= 2
    /\ pc = "done"
    /\ ~db.hasFts
    /\ \A i \in 1..Len(lastQuery.result) : lastQuery.result[i].path \in Range(db.paths)

\* A step in which the /qcount command ends.
CountStep == lastCount'.ran /\ lastCount' # lastCount

\* C15: the /qcount command obtains the number of rows of the primary table:
\* the number of Path Records of the most recent rebuild, 0 when no rebuild
\* has run.
C15_CountEntrypoint ==
    [][CountStep =>
          /\ lastCount'.ok
          /\ lastCount'.count = Len(db.paths)]_vars

\* The paths of a result list.
ResultPaths(res) == {res[i].path : i \in 1..Len(res)}

\* C16: a query interleaved with a rebuild that replaces a non-empty index
\* observes the index as the rebuild has written it so far: empty after the
\* clear, and partially repopulated (a non-empty part of the new snapshot)
\* once rows that match the query have been written.
C16_UnsynchronisedReader ==
    [][(QueryStep /\ Running /\ before # <<>> /\ lastQuery'.error = "none") =>
          LET written == advanced_query_paths(tx, lastQuery'.q, lastQuery'.limit)
              seen    == ResultPaths(lastQuery'.result)
          IN  IF written = <<>>
              THEN seen = {}
              ELSE seen # {} /\ seen \subseteq Range(tx.paths)]_vars

\* C17: while a rebuild runs, the rows of every batch written so far are
\* committed: they are in the database file before the next batch is
\* collected, not only after the commit that ends the rebuild.
C17_BatchedCommits ==
    (Running /\ tx.paths # <<>>) => Range(tx.paths) \subseteq Range(db.paths)

\* C18: a query whose SELECTs fail because the database file is locked by
\* another process reports the failure: no such call returns the ordinary
\* empty list, as if nothing matched.
C18_StorageFailureSurfaces ==
    [][~(/\ QueryStep
         /\ lastQuery'.error = "database is locked"
         /\ lastQuery'.result = <<>>)]_vars

\* A step in which rebuild_index has cleared the index and starts walking.
BeginStep == ~Running /\ pc' = "loop"

\* A query with terms returns on a store without the primary table.
QueryMissingStep ==
    QueryStep /\ _tokenize_query(lastQuery'.q) # <<>> /\ ~db.hasPaths

\* C19 as claimed: a query on a store whose file or primary table is missing
\* returns [] and the primary table exists afterwards; a rebuild creates the
\* schema before it clears and loads.
C19_SchemaOnDemand ==
    [][/\ QueryMissingStep => (lastQuery'.result = <<>> /\ db'.hasPaths)
       /\ BeginStep => (db'.hasPaths /\ db'.paths = <<>>)]_vars

\* C19: a query on a store whose file or primary table is missing returns []
\* without raising and creates at most the empty database file: the primary
\* table is still missing afterwards. A rebuild creates the file and the
\* primary table before it clears and loads.
C19_MissingStoreNoRaise ==
    [][/\ QueryMissingStep =>
             /\ lastQuery'.result = <<>>
             /\ db'.file
             /\ ~db'.hasPaths
             /\ db'.paths = <<>>
       /\ BeginStep => (db'.file /\ db'.hasPaths /\ db'.paths = <<>>)]_vars

\* A query with terms returned [] before any rebuild: the database file is
\* there now, the primary table is not.
C19_Witness ==
    /\ pc = "idle"
    /\ lastQuery.ran
    /\ _tokenize_query(lastQuery.q) # <<>>
    /\ lastQuery.error = "no such table"
    /\ lastQuery.result = <<>>
    /\ db.file
    /\ ~db.hasPaths

\* A drive letter of the model's filesystem.
IsLetter(c) == c \in {"C", "E", "Z"}

\* The target is a bare letter, or a letter with a colon, or with a colon
\* and a slash.
IsDriveForm(t) ==
    /\ Len(t) \in 1..3
    /\ IsLetter(t[1])
    /\ \A k \in 2..Len(t) : t[k] = <<"?", ":", "/">>[k]

\* The target is an absolute path of a directory beneath a drive root or
\* beneath /.
IsAbsoluteDirectory(t) ==
    /\ ~IsDriveForm(t)
    /\ \/ Len(t) > 1 /\ t[1] = "/"
       \/ Len(t) > 3 /\ IsLetter(t[1]) /\ t[2] = ":" /\ t[3] = "/"

\* C20 as claimed: after a rebuild that completed, a drive-letter target was
\* mapped to the root of its drive, and an absolute directory target to the
\* directory itself, whose entries are in the index.
C20_TargetNormalization ==
    pc = "done" =>
        \A j \in 1..Len(targets) :
            LET t == targets[j]
            IN  /\ IsDriveForm(t) =>
                      /\ Root(t) = <<t[1], ":", "/">>
                      /\ Exists(fs, Root(t)) => j \in scanned
                /\ (IsAbsoluteDirectory(t) /\ Exists(fs, t)) =>
                      /\ j \in scanned
                      /\ Range(fs[t].entries) \subseteq Range(db.paths)

\* C20: after a rebuild that completed, a drive-letter target was mapped to
\* the root of its drive and that root was walked when it exists; an
\* absolute directory target d was mapped to the path "d:/" and not to d, and
\* was skipped because no such path exists.
C20_DriveNormalization ==
    pc = "done" =>
        \A j \in 1..Len(targets) :
            LET t == targets[j]
            IN  /\ IsDriveForm(t) =>
                      /\ Root(t) = <<t[1], ":", "/">>
                      /\ Exists(fs, Root(t)) => j \in scanned
                /\ (IsAbsoluteDirectory(t) /\ t[Len(t)] \notin {":", "/", "\\", " "}) =>
                      /\ Root(t) = t \o <<":", "/">>
                      /\ ~Exists(fs, Root(t)) => j \notin scanned

\* A rebuild of the existing directory C:/Ab and of the drive E ended: only
\* the drive was walked, and the entry of the directory is not in the index.
C20_Witness ==
    /\ pc = "done"
    /\ targets = <<cDir, cE>>
    /\ Exists(fs, cDir)
    /\ scanned = {2}
    /\ db.paths = <<pD>>
    /\ pB \notin Range(db.paths)

-----------------------------------------------------------------------------
(* Claims on the reported total and on the /qbuild command *)

\* C21: the count a rebuild reports when it ends is the number of Path
\* Records it inserted, the cardinality of the primary table afterwards,
\* also when the uniqueness constraint ignored duplicates.
C21_ReportedTotal ==
    pc = "done" => total = Len(db.paths)

\* C29: a rebuild is not atomic on failure: when rebuild_index raises after
\* its clear step (the /qbuild command without an argument, whose targets
\* are None; an insert into a mirror that could not be recreated), the
\* deletion is already committed: the committed index is empty, the records
\* of before the rebuild are not restored, nothing of the rebuild is kept.
C29_NotAtomicOnFailure ==
    pc = "raised" =>
        /\ db.file /\ db.hasPaths
        /\ db.paths = <<>>
        /\ db.fts = <<>>
        /\ tx = db

\* A /qbuild command without an argument has emptied an index that held
\* the records of two drives.
C29_Witness ==
    /\ pc = "raised"
    /\ cmd.missing
    /\ before = fs[rootC].entries \o fs[rootE].entries
    /\ db.paths = <<>>

\* A rebuild whose mirror insert failed has emptied an index that held
\* records.
FailedInsertEmptied ==
    /\ pc = "raised"
    /\ ~cmd.qbuild /\ recreate = "createfail" /\ walked # {}
    /\ before # <<>>
    /\ db.paths = <<>>

\* The drive roots that the claim C30 names for an argument text.
ArgumentRoots(text) ==
    {<<c, ":", "/">> : c \in Range(text) \ {" ", "\t", "\n", ":", "/", "\\"}}

\* The roots line 79 prints for the targets: those with a non-empty drive.
PrintedRoots ==
    {Root(targets[j]) : j \in {i \in 1..Len(targets) : Drive(targets[i]) # <<>>}}

\* C30: /qbuild hands its argument text to the rebuild as one string, so the
\* rebuild iterates over its characters: the roots it scans are exactly the
\* X:/ for the characters X of the text other than whitespace, ':', '/' and
\* '\'; those that exist are walked and their entries are the index.
C30_QBuildTargetSplitting ==
    (pc = "done" /\ cmd.qbuild) =>
        /\ Len(targets) = Len(cmd.arg)
        /\ \A j \in 1..Len(targets) : targets[j] = <<cmd.arg[j]>>
        /\ PrintedRoots = ArgumentRoots(cmd.arg)
        /\ {Root(targets[j]) : j \in scanned}
               = {r \in ArgumentRoots(cmd.arg) : Exists(fs, r)}
        /\ Range(db.paths)
               = UNION {Range(fs[r].entries) :
                           r \in {x \in ArgumentRoots(cmd.arg) : Exists(fs, x)}}

\* '/qbuild C:/Ab' has scanned C:/, A:/ and b:/ and indexed the drive C:/.
C30_Witness ==
    /\ pc = "done"
    /\ cmd.qbuild
    /\ cmd.arg = cDir
    /\ PrintedRoots = {rootC, <<"A", ":", "/">>, <<"b", ":", "/">>}
    /\ scanned = {1}
    /\ db.paths = fs[rootC].entries

\* '/qbuild C E' has indexed both drives.
BothDrivesIndexed ==
    /\ pc = "done"
    /\ cmd.arg = aCE
    /\ scanned = {1, 3}
    /\ db.paths = fs[rootC].entries \o fs[rootE].entries

-----------------------------------------------------------------------------
(* Claims on the retrieval and the scoring of candidates *)

\* A segment of the path p has a similarity ratio of at least 0.70 with t.
FuzzySegment(t, p) ==
    \E tok \in Range(_path_tokens(Lower(p))) :
        LET r == Ratio(t, tok) IN r.n * 100 >= 70 * r.d

\* The path p lacks a term of the query q as a literal substring, and holds
\* every term of q as a substring or by a similar segment.
Misspelt(p, q) ==
    LET terms == _tokenize_query(q)
    IN  /\ \E i \in 1..Len(terms) : ~Contains(Lower(p), terms[i])
        /\ \A i \in 1..Len(terms) :
              Contains(Lower(p), terms[i]) \/ FuzzySegment(terms[i], p)

\* The row p matches the AND SELECT, the OR SELECT of the query q.
MatchesAnd(p, q) ==
    LET terms == _tokenize_query(q)
    IN  \A i \in 1..Len(terms) : Like(LikeParam(terms[i]), Lower(p))

MatchesOr(p, q) ==
    LET lt == LikeTerms(_expand_terms(_tokenize_query(q)))
    IN  \E i \in 1..Len(lt) : Like(LikeParam(lt[i]), Lower(p))

\* The number of rows of the store d that satisfy M.
CountRows(d, M(_)) == Len(SelectSeq(d.paths, M))

\* C22 as stated: in a query with several terms, an indexed path that lacks
\* a term as a literal substring but holds it by a similar segment, and
\* holds the other terms, is retrieved as a candidate, is scored as holding
\* all core terms, and is returned within the top `limit`, whatever the size
\* of the index and the other paths that match.
C22_FuzzyTolerance ==
    [][(QueryStep /\ lastQuery'.limit >= 1
                  /\ Len(_tokenize_query(lastQuery'.q)) >= 2) =>
          LET q == lastQuery'.q
              n == Len(_tokenize_query(q))
          IN  \A p \in Range(db.paths) :
                 Misspelt(p, q) =>
                    /\ p \in Range(Candidates(db, q, lastQuery'.limit))
                    /\ Scored(p, q).score >= 140 + 15 * n
                    /\ p \in ResultPaths(lastQuery'.result)]_vars

\* C22, amended: such a path is scored as holding all core terms, and it is
\* retrieved only by the relaxed OR search: it is a candidate when fewer
\* than `limit` rows match every core term, it matches the relaxed search
\* and no more rows than the candidate cap do; it is then returned when the
\* candidates are no more than `limit`. When `limit` or more rows match
\* every core term and it is not one of them, it is not returned.
C22_FuzzyToleranceWhenRelaxed ==
    [][(QueryStep /\ lastQuery'.limit >= 1
                  /\ Len(_tokenize_query(lastQuery'.q)) >= 2) =>
          LET q     == lastQuery'.q
              lim   == lastQuery'.limit
              n     == Len(_tokenize_query(q))
              cands == Candidates(db, q, lim)
              nAnd  == CountRows(db, LAMBDA r : MatchesAnd(r, q))
              nOr   == CountRows(db, LAMBDA r : MatchesOr(r, q))
          IN  \A p \in Range(db.paths) :
                 Misspelt(p, q) =>
                    /\ Scored(p, q).score >= 140 + 15 * n
                    /\ (nAnd < lim /\ MatchesOr(p, q)
                            /\ nOr <= Max(lim * CapFactor, CapFloor))
                          => /\ p \in Range(cands)
                             /\ Len(cands) <= lim
                                   => p \in ResultPaths(lastQuery'.result)
                    /\ (nAnd >= lim /\ ~MatchesAnd(p, q))
                          => p \notin ResultPaths(lastQuery'.result)]_vars

\* query("atlauncher servers") returned /AtlLauncher/servers, which does not
\* hold 'atlauncher' as a substring, with the score of a full match.
C22_Witness ==
    /\ lastQuery.ran
    /\ lastQuery.q = qLauncherServers
    /\ db.paths = <<pMisspelt>>
    /\ ~Contains(Lower(pMisspelt), wAtlauncher)
    /\ Len(lastQuery.result) = 1
    /\ lastQuery.result[1].path = pMisspelt
    /\ lastQuery.result[1].score >= 170

\* The operations of the call show that the OR SELECT was executed.
PhaseBRan(lq) == Len(SelectSeq(lq.ops, LAMBDA o : o = "select")) = 2

\* The path p holds every core term of the query q as a substring of its
\* lower-cased form.
HoldsEveryTerm(p, q) ==
    \A t \in Range(_tokenize_query(q)) : Contains(Lower(p), t)

\* The path p holds one of the search strings of the relaxed set of q: an
\* expanded term, or the first three characters of one of length >= 3.
HoldsSearchString(p, q) ==
    LET exp == _expand_terms(_tokenize_query(q))
    IN  \E i \in 1..Len(exp) :
           \/ Contains(Lower(p), exp[i])
           \/ Len(exp[i]) >= 3 /\ Contains(Lower(p), SubSeq(exp[i], 1, 3))

\* C23: every path a query returns is a row of the index at the time of the
\* query and holds, in its lower-cased form, at least one search string of
\* the relaxed set as a substring; a query none of whose search strings
\* occurs in an indexed path returns the empty list, without raising.
C23_ResultsMatchSomething ==
    [][QueryStep =>
          LET q   == lastQuery'.q
              res == lastQuery'.result
          IN  /\ \A i \in 1..Len(res) :
                    /\ res[i].path \in Range(db.paths)
                    /\ HoldsSearchString(res[i].path, q)
              /\ (\A p \in Range(db.paths) : ~HoldsSearchString(p, q))
                    => res = <<>> /\ lastQuery'.error = "none"]_vars

\* C24: every candidate of Phase A holds every core term as a literal,
\* case-insensitive substring, also when a term holds '%' or '_'.
C24_PhaseAStrictness ==
    [][(QueryStep /\ _tokenize_query(lastQuery'.q) # <<>>) =>
          LET q == lastQuery'.q
          IN  \A p \in Range(PhaseA(db, _tokenize_query(q), lastQuery'.limit)) :
                 HoldsEveryTerm(p, q)]_vars

\* C25: the OR SELECT of Phase B is executed exactly when Phase A returned
\* fewer candidates than `limit`: when `limit` or more indexed paths hold
\* every core term, it is not executed and every returned path holds every
\* core term; when fewer do, it is executed.
C25_PhaseBTrigger ==
    [][(QueryStep /\ _tokenize_query(lastQuery'.q) # <<>>) =>
          LET q     == lastQuery'.q
              lim   == lastQuery'.limit
              res   == lastQuery'.result
              nAll  == CountRows(db, LAMBDA p : HoldsEveryTerm(p, q))
          IN  /\ PhaseBRan(lastQuery')
                    <=> Len(PhaseA(db, _tokenize_query(q), lim)) < lim
              /\ nAll >= lim =>
                    /\ ~PhaseBRan(lastQuery')
                    /\ \A i \in 1..Len(res) : HoldsEveryTerm(res[i].path, q)
              /\ nAll < lim => PhaseBRan(lastQuery')]_vars

\* The position of the row p in the primary table of the store d.
RowId(d, p) == CHOOSE i \in 1..Len(d.paths) : d.paths[i] = p

\* C26: the candidate list holds each path at most once; the candidates of
\* Phase A come first, in the order the AND SELECT returned them; a path of
\* Phase B that Phase A had found is not added again, the others follow in
\* the order the OR SELECT returned them; no path is twice in a result.
C26_CandidateOrder ==
    [][(QueryStep /\ _tokenize_query(lastQuery'.q) # <<>>) =>
          \E text \in {lastQuery'.q} :
          \E lim \in {lastQuery'.limit} :
          \E res \in {lastQuery'.result} :
          \E first \in {PhaseA(db, _tokenize_query(text), lim)} :
          \E merged \in {PhaseB(db, first,
                                _expand_terms(_tokenize_query(text)), lim)} :
          \E cands \in {Candidates(db, text, lim)} :
             /\ NoDuplicates(merged)
             /\ cands = merged
             /\ SubSeq(cands, 1, Len(first)) = first
             /\ \A i \in 1..Len(first) : MatchesAnd(cands[i], text)
             /\ \A i \in (Len(first) + 1)..Len(cands) :
                   /\ cands[i] \notin Range(first)
                   /\ MatchesOr(cands[i], text)
                   /\ PhaseBRan(lastQuery')
             /\ \A i, j \in 1..Len(cands) :
                   (i < j /\ (j <= Len(first) \/ i > Len(first)))
                       => RowId(db, cands[i]) < RowId(db, cands[j])
             /\ \A i, j \in 1..Len(res) : res[i].path = res[j].path => i = j]_vars

\* query("srv minecraft", 20) on the index [/srv, .../server2/logs,
\* .../server1/world]: the two paths of Phase A come before /srv, which is
\* stored first and which Phase B added; Phase B found all three.
C26_Witness ==
    /\ lastQuery.ran
    /\ lastQuery.q = qSrvMinecraft
    /\ lastQuery.limit = 20
    /\ db.paths = <<pSrv, pLogs, pWorld>>
    /\ PhaseBRan(lastQuery)
    /\ PhaseA(db, _tokenize_query(qSrvMinecraft), 20) = <<pLogs, pWorld>>
    /\ Candidates(db, qSrvMinecraft, 20) = <<pLogs, pWorld, pSrv>>
    /\ \A p \in {pSrv, pLogs, pWorld} : MatchesOr(p, qSrvMinecraft)

\* The candidate cap of the claim C27 for a limit.
Cap(limit) == Max(limit * CapFactor, CapFloor)

\* C27 as stated: for every query with limit >= 1 the candidates retrieved,
\* those of Phase A and those Phase B merged in, are never more than the
\* cap max(limit * 80, 2000).
C27_CandidateCap ==
    [][(QueryStep /\ lastQuery'.limit >= 1) =>
          Len(Candidates(db, lastQuery'.q, lastQuery'.limit))
              <= Cap(lastQuery'.limit)]_vars

\* C27, amended: each of the two SELECTs returns no more rows than the cap.
\* When Phase A returns `limit` rows or more, they are the candidates; else
\* Phase B adds at most the cap to the fewer than `limit` rows of Phase A,
\* so that the candidates are never more than the cap plus limit - 1.
C27_CandidateCapPerPhase ==
    [][(QueryStep /\ lastQuery'.limit >= 1
                  /\ _tokenize_query(lastQuery'.q) # <<>>) =>
          LET q     == lastQuery'.q
              lim   == lastQuery'.limit
          IN  \E first \in {PhaseA(db, _tokenize_query(q), lim)} :
              \E cands \in {Candidates(db, q, lim)} :
                 /\ Len(first) <= Cap(lim)
                 /\ (Len(first) >= lim) => (cands = first)
                 /\ Len(cands) - Len(first) <= Cap(lim)
                 /\ Len(cands) <= Cap(lim) + lim - 1]_vars

\* query("srv minecraft", 3) on an index where more rows than the cap match
\* the relaxed search before the two rows that hold both terms: Phase B has
\* added a full cap of rows to the two of Phase A.
C27_Witness ==
    /\ lastQuery.ran
    /\ lastQuery.q = qSrvMinecraft
    /\ lastQuery.limit = 3
    /\ db.paths = <<pSrv, pSrvA, pSrvB, pMin, pLogs, pWorld>>
    /\ Len(PhaseA(db, _tokenize_query(qSrvMinecraft), 3)) = 2
    /\ Len(Candidates(db, qSrvMinecraft, 3)) = Cap(3) + 2

\* The core term t is contained in the path p.
TermContained(t, p) == Contains(Lower(p), t) \/ FuzzySegment(t, p)

\* The coverage score of the claim C28 for n core terms of which c are
\* contained.
CoverageTable(n, c) ==
    CASE n > 1 /\ c = n -> 140 + 15 * c
      [] n > 1 /\ c < n -> -(90 * (n - c)) + 15 * c
      [] n = 1 /\ c = 1 -> 40 + 15
      [] n = 1 /\ c = 0 -> 0

\* C28: with n core terms of which c are contained in a candidate, a term
\* that the query repeats counting once per occurrence, the coverage part of
\* its score is 140 + 15c when n > 1 and c = n, -90(n - c) + 15c when n > 1
\* and c < n, 55 when n = 1 and c = 1, 0 when n = 1 and c = 0; the score is
\* this value plus the fuzzy bonus, rounded to an integer.
C28_CoverageScore ==
    [][QueryStep =>
          \E res \in {lastQuery'.result} :
          \E terms \in {_tokenize_query(lastQuery'.q)} :
          \E exp \in {_expand_terms(terms)} :
             \A i \in 1..Len(res) :
                \E p \in {res[i].path} :
                \E c \in {Cardinality({k \in 1..Len(terms) :
                                          TermContained(terms[k], p)})} :
                \E base \in {CoverageTable(Len(terms), c)} :
                \E bonus \in {FuzzyBonus(exp, Lower(Basename(p)), Lower(p))} :
                   res[i].score = RoundScore(base, bonus)]_vars

\* query("srv srv") returned /srv with the coverage of two contained terms
\* out of two: 170 and the fuzzy bonus of 60.
C28_Witness ==
    /\ lastQuery.ran
    /\ lastQuery.q = qSrvSrv
    /\ db.paths = <<pSrv, pLogs, pWorld>>
    /\ Len(_tokenize_query(qSrvSrv)) = 2
    /\ lastQuery.result # <<>>
    /\ lastQuery.result[1] = [path |-> pSrv, score |-> 230]

====
